---- MODULE Spec2Model ----
(***************************************************************************)
(* Model of src/underwriter.py ("Trigger the Underwriter"): the three      *)
(* statement sources (PDF free text, CSV upload, ticker feed), the demo    *)
(* statement, calculate_limits, and the control flow of main().            *)
(*                                                                         *)
(* Amounts are Python floats in the source.  They are modelled as exact    *)
(* rationals n/d (d > 0, lowest terms), plus NaN.  Rounding and overflow   *)
(* to infinity are outside the model.  A Python exception raised inside an *)
(* expression is the value Err, which every operation propagates.          *)
(* Optional values (None in the source) are sequences of length 0 or 1.    *)
(***************************************************************************)
EXTENDS Integers, Sequences, FiniteSets

VARIABLES
    pc,            \* position in main(): see the actions below
    input_type,    \* st.radio choice (line 271)
    ticker,        \* st.text_input value (line 282)
    file,          \* the uploaded file, None or Some(file) (line 293)
    feed,          \* what yfinance answers for the ticker
    df,            \* main's df: None or Some(frame)
    company_info,  \* main's company_info: None or Some(info)
    res,           \* main's res: None or Some(result of calculate_limits)
    display_df,    \* the audit tab's display_df: None or Some(frame)
    message,       \* the soft message shown by st.error / st.info, "" if none
    raised,        \* the exception that ended the run, "" if none
    built,         \* history: the sources that constructed a statement, in order
    calc_args      \* history: the arguments of the calls of calculate_limits

vars == <<pc, input_type, ticker, file, feed, df, company_info, res,
          display_df, message, raised, built, calc_args>>

(***************************************************************************)
(* Bounds of the model.                                                    *)
(***************************************************************************)
MaxAmt == 1        \* a cell of an enumerated statement holds -1 .. MaxAmt
MaxOverrides == 1  \* items of an enumerated statement that differ from its base
MaxRows == 1       \* rows of an enumerated partial CSV frame
MaxLen == 4        \* characters of an enumerated PDF text

None == <<>>
Some(x) == <<x>>

(***************************************************************************)
(* Floats.                                                                 *)
(***************************************************************************)
Abs(i) == IF i < 0 THEN -i ELSE i

RECURSIVE GCD(_, _)
GCD(a, b) == IF b = 0 THEN a ELSE GCD(b, a % b)

\* the rational n/d in lowest terms with a positive denominator (d # 0)
Rat(n, d) ==
    LET g == GCD(Abs(n), Abs(d))
        s == IF d < 0 THEN -1 ELSE 1
    IN [k |-> "num", n |-> s * (n \div g), d |-> s * (d \div g)]

Num(i) == [k |-> "num", n |-> i, d |-> 1]
NaN == [k |-> "nan", n |-> 0, d |-> 1]
Err == [k |-> "err", n |-> 0, d |-> 1]
\* a cell whose text float() cannot convert
Text == [k |-> "str", n |-> 0, d |-> 1]

\* the result kind of a binary float operation on kinds other than "num"
Special(a, b) == IF a.k = "err" \/ b.k = "err" THEN Err ELSE NaN

Add(a, b) ==
    IF a.k = "num" /\ b.k = "num"
    THEN Rat(a.n * b.d + b.n * a.d, a.d * b.d)
    ELSE Special(a, b)

Sub(a, b) ==
    IF a.k = "num" /\ b.k = "num"
    THEN Rat(a.n * b.d - b.n * a.d, a.d * b.d)
    ELSE Special(a, b)

\* cross-reduced before multiplying, so that the products stay small
Mul(a, b) ==
    IF a.k = "num" /\ b.k = "num"
    THEN LET g1 == GCD(Abs(a.n), b.d)
             g2 == GCD(Abs(b.n), a.d)
         IN Rat((a.n \div g1) * (b.n \div g2), (a.d \div g2) * (b.d \div g1))
    ELSE Special(a, b)

\* Python's float division: a zero divisor raises ZeroDivisionError
Div(a, b) ==
    IF a.k = "err" \/ b.k = "err" THEN Err
    ELSE IF b.k = "num" /\ b.n = 0 THEN Err
    ELSE IF a.k = "num" /\ b.k = "num"
         THEN Mul(a, Rat(b.d, b.n))
         ELSE NaN

\* a > b; every comparison with NaN is False
Gt(a, b) == a.k = "num" /\ b.k = "num" /\ a.n * b.d > b.n * a.d

\* Python's max(a, b): the first argument unless the second is greater
Max(a, b) ==
    IF a.k = "err" \/ b.k = "err" THEN Err
    ELSE IF Gt(b, a) THEN b ELSE a

\* Python's "x or y" on floats: y when x is 0.0 (NaN is truthy)
Or(x, y) == IF x.k = "num" /\ x.n = 0 THEN y ELSE x

(***************************************************************************)
(* Frames (pandas DataFrames) and the canonical items.                     *)
(***************************************************************************)
\* the statement items, in the order of the demo frame (line 303)
Items == <<
    "Cash & Bank Balances", "Sundry Debtors (Receivables)", "Inventory (Stock)",
    "Sundry Creditors (Trade)", "Other Current Liabilities",
    "Short Term Bank Borrowings", "Long Term Loans", "Tangible Net Worth",
    "EBITDA", "Annual Turnover (Revenue)", "Total Raw Material Purchases",
    "Interest & Finance Charges", "Import Content (%)" >>

ItemSet == {Items[i] : i \in 1..Len(Items)}

StatementColumns == <<"Financial_Item", "Amount_INR">>

Row(item, amount) == [Financial_Item |-> item, Amount_INR |-> amount]

Frame(rows) == [columns |-> StatementColumns, rows |-> rows]

\* the demo frame of main (lines 302-305)
DemoAmounts == <<2000000, 6000000, 5000000, 3500000, 1000000, 2500000, 7000000,
                 12000000, 6500000, 45000000, 28000000, 900000, 45>>

DemoFrame == Frame([i \in 1..Len(Items) |-> Row(Items[i], Num(DemoAmounts[i]))])

(***************************************************************************)
(* calculate_limits (lines 215-257).                                       *)
(***************************************************************************)
\* fetch: the amount of the first row of the item; 0.0 on any exception
\* (no such row, no such column, a cell float() cannot convert)
fetch(frame, item) ==
    LET hits == {i \in 1..Len(frame.rows) : frame.rows[i].Financial_Item = item}
    IN IF frame.columns # StatementColumns \/ hits = {}
       THEN Num(0)
       ELSE LET first == CHOOSE i \in hits : \A j \in hits : i <= j
                cell == frame.rows[first].Amount_INR
            IN IF cell.k = "str" THEN Num(0) ELSE cell

\* wc_limit with the margin taken after the liabilities
wc_limit_margin_on_net(ca, ocl) ==
    LET margin == Mul(Rat(1, 4), Sub(ca, ocl))
    IN Max(Num(0), Sub(Sub(ca, margin), ocl))

wc_limit(ca, ocl) ==
    LET margin == Mul(Rat(1, 4), ca)
    IN Max(Num(0), Sub(Sub(ca, margin), ocl))

tl_headroom(ebitda, total_debt) ==
    Max(Num(0), Sub(Mul(ebitda, Rat(7, 2)), total_debt))

\* import_pct without the default of 30
import_pct_no_default(frame) == fetch(frame, "Import Content (%)")

import_pct(frame) == Or(fetch(frame, "Import Content (%)"), Num(30))

lc_limit(purchases, pct) ==
    Mul(Div(Mul(purchases, Div(pct, Num(100))), Num(12)), Num(4))

bg_limit(revenue) == Mul(revenue, Rat(1, 10))

bill_limit(debtors) == Mul(debtors, Rat(4, 5))

dscr(ebitda, interest, total_debt) ==
    LET den == Add(interest, Div(total_debt, Num(5)))
    IN IF Gt(den, Num(0)) THEN Div(ebitda, den) ELSE Num(0)

\* leverage without the guard on EBITDA
leverage_unguarded(ebitda, total_debt) == Div(total_debt, ebitda)

leverage(ebitda, total_debt) ==
    IF Gt(ebitda, Num(0)) THEN Div(total_debt, ebitda) ELSE Num(0)

\* the returned dict without its constant *_BRK strings
calculate_limits(frame) ==
    LET cash == fetch(frame, "Cash & Bank Balances")
        debtors == fetch(frame, "Sundry Debtors (Receivables)")
        inventory == fetch(frame, "Inventory (Stock)")
        creditors == fetch(frame, "Sundry Creditors (Trade)")
        other_cl == fetch(frame, "Other Current Liabilities")
        revenue == fetch(frame, "Annual Turnover (Revenue)")
        ebitda == fetch(frame, "EBITDA")
        st_debt == fetch(frame, "Short Term Bank Borrowings")
        lt_debt == fetch(frame, "Long Term Loans")
        purchases == fetch(frame, "Total Raw Material Purchases")
        interest == fetch(frame, "Interest & Finance Charges")
        ca == Add(Add(cash, debtors), inventory)
        ocl == Add(creditors, other_cl)
        total_debt == Add(st_debt, lt_debt)
    IN [ WC |-> wc_limit(ca, ocl),
         TL |-> tl_headroom(ebitda, total_debt),
         LC |-> lc_limit(purchases, import_pct(frame)),
         BG |-> bg_limit(revenue),
         BILL |-> bill_limit(debtors),
         DSCR |-> dscr(ebitda, interest, total_debt),
         LEVERAGE |-> leverage(ebitda, total_debt),
         CA |-> ca, OCL |-> ocl, EB |-> ebitda, TD |-> total_debt ]

ResultKeys == {"WC", "TL", "LC", "BG", "BILL", "DSCR", "LEVERAGE", "CA", "OCL", "EB", "TD"}

\* an exception inside calculate_limits leaves its caller without a result
Raises(result) == \E key \in ResultKeys : result[key].k = "err"

(***************************************************************************)
(* parse_financials_from_pdf (lines 48-90).                                *)
(*                                                                         *)
(* A text is a sequence of symbols: single characters, and label words     *)
(* (each stands for the characters of one pattern of the mapping, none of  *)
(* them a digit, a comma or a line break).                                 *)
(***************************************************************************)
Digits == {"0", "1", "2", "3", "4", "5", "6", "7", "8", "9"}

DigitValue(c) ==
    CASE c = "0" -> 0 [] c = "1" -> 1 [] c = "2" -> 2 [] c = "3" -> 3
      [] c = "4" -> 4 [] c = "5" -> 5 [] c = "6" -> 6 [] c = "7" -> 7
      [] c = "8" -> 8 [] c = "9" -> 9

\* the mapping table (lines 60-75), in the dict's order
mapping == <<
    [key |-> "Cash & Bank Balances", patterns |-> <<"Cash", "Bank Balance">>],
    [key |-> "Sundry Debtors (Receivables)",
     patterns |-> <<"Debtors", "Receivables", "Trade Receivables">>],
    [key |-> "Inventory (Stock)", patterns |-> <<"Inventory", "Stock", "Closing Stock">>],
    [key |-> "Sundry Creditors (Trade)",
     patterns |-> <<"Creditors", "Payables", "Trade Payables">>],
    [key |-> "Other Current Liabilities", patterns |-> <<"Other Current Liab">>],
    [key |-> "Short Term Bank Borrowings",
     patterns |-> <<"Short Term Borrowing", "Working Capital Loan", "CC Limit">>],
    [key |-> "Long Term Loans", patterns |-> <<"Long Term", "Secured Loan", "Term Loan">>],
    [key |-> "Tangible Net Worth",
     patterns |-> <<"Net Worth", "Equity", "Shareholders Funds">>],
    [key |-> "EBITDA", patterns |-> <<"EBITDA", "Operating Profit">>],
    [key |-> "Annual Turnover (Revenue)", patterns |-> <<"Turnover", "Revenue", "Sales">>],
    [key |-> "Total Raw Material Purchases",
     patterns |-> <<"Purchases", "Cost of Materials">>],
    [key |-> "Interest & Finance Charges", patterns |-> <<"Interest", "Finance Cost">>],
    [key |-> "Import Content (%)", patterns |-> <<"Import">>],
    [key |-> "Operating Cycle (Days)", patterns |-> <<"Cycle", "Days">>] >>

\* the last index e >= j-1 with text[j..e] all in S
RunEnd(text, j, S) ==
    CHOOSE e \in (j - 1)..Len(text) :
        /\ \A k \in j..e : text[k] \in S
        /\ e = Len(text) \/ text[e + 1] \notin S

\* where the group ([\d,]+\.?\d*) starts for a label at i: the first digit or
\* comma after it that "." reaches (no line break in between); 0 if none
GroupStart(text, i) ==
    LET starts == {j \in (i + 1)..Len(text) :
                      /\ text[j] \in Digits \cup {","}
                      /\ \A k \in (i + 1)..(j - 1) : text[k] # "\n"}
    IN IF starts = {} THEN 0 ELSE CHOOSE j \in starts : \A m \in starts : j <= m

\* re.search(pattern.*?([\d,]+\.?\d*)): the leftmost label that the rest of
\* the expression can follow; group 1 of the match, None without a match
search(pattern, text) ==
    LET at == {i \in 1..Len(text) : text[i] = pattern /\ GroupStart(text, i) # 0}
    IN IF at = {} THEN None
       ELSE LET i == CHOOSE x \in at : \A y \in at : x <= y
                j == GroupStart(text, i)
                a == RunEnd(text, j, Digits \cup {","})
                b == IF a < Len(text) /\ text[a + 1] = "." THEN a + 1 ELSE a
                c == RunEnd(text, b + 1, Digits)
            IN Some(SubSeq(text, j, c))

RECURSIVE DigitsValue(_)
DigitsValue(s) ==
    IF s = <<>> THEN 0
    ELSE DigitsValue(SubSeq(s, 1, Len(s) - 1)) * 10 + DigitValue(s[Len(s)])

RECURSIVE Pow10(_)
Pow10(k) == IF k = 0 THEN 1 ELSE 10 * Pow10(k - 1)

\* float(val) of a string of digits with at most one ".": ValueError (Err)
\* when it holds no digit
float(val) ==
    LET dots == {i \in 1..Len(val) : val[i] = "."}
        dot == IF dots = {} THEN Len(val) + 1 ELSE CHOOSE i \in dots : TRUE
        whole == SubSeq(val, 1, dot - 1)
        frac == SubSeq(val, dot + 1, Len(val))
    IN IF whole = <<>> /\ frac = <<>> THEN Err
       ELSE Rat(DigitsValue(whole) * Pow10(Len(frac)) + DigitsValue(frac),
                Pow10(Len(frac)))

\* match.group(1).replace(',', '')
StripCommas(token) == SelectSeq(token, LAMBDA c : c # ",")

\* lines 79-84 for one key: the value of the first pattern that matches,
\* None when no pattern matches
RECURSIVE first_match(_, _, _)
first_match(patterns, n, text) ==
    IF n > Len(patterns) THEN None
    ELSE LET match == search(patterns[n], text)
         IN IF match # None THEN Some(float(StripCommas(match[1])))
            ELSE first_match(patterns, n + 1, text)

\* lines 78-84: extracted_data as a function on the keys that matched
extract(text) ==
    LET matched == {i \in 1..Len(mapping) : first_match(mapping[i].patterns, 1, text) # None}
    IN [i \in matched |-> first_match(mapping[i].patterns, 1, text)[1]]

\* lines 54-57: the pages' texts, each followed by a line break; Err when
\* extract_text() gives None for a page (None + "\n" is a TypeError)
RECURSIVE page_text(_)
page_text(pages) ==
    IF pages = <<>> THEN Some(<<>>)
    ELSE LET rest == page_text(Tail(pages))
         IN IF Head(pages) = None \/ rest = None THEN None
            ELSE Some(Head(pages)[1] \o <<"\n">> \o rest[1])

\* the whole function: the exception it raises ("" if none) and its frame
parse_financials_from_pdf(pdf) ==
    IF ~pdf.opens THEN [raised |-> "PDFSyntaxError", frame |-> None]
    ELSE LET text == page_text(pdf.pages)
         IN IF text = None THEN [raised |-> "TypeError", frame |-> None]
            ELSE LET extracted_data == extract(text[1])
                 IN IF \E i \in DOMAIN extracted_data : extracted_data[i].k = "err"
                    THEN [raised |-> "ValueError", frame |-> None]
                    ELSE [raised |-> "",
                          frame |-> Some(Frame(
                              [i \in 1..Len(mapping) |->
                                  Row(mapping[i].key,
                                      IF i \in DOMAIN extracted_data
                                      THEN extracted_data[i] ELSE Num(0))]))]

\* the symbols of the enumerated texts
Alphabet == {"Cash", "Debtors", "Receivables", "1", "2", ",", ".", "\n"}

Texts == UNION {[1..n -> Alphabet] : n \in 0..MaxLen}

\* an uploaded file: what pd.read_csv makes of it (parses, frame) and what
\* pdfplumber makes of it (opens, pages); a page is its extract_text()
Pdf(pages) == [parses |-> FALSE, frame |-> Frame(<<>>), opens |-> TRUE, pages |-> pages]

\* a file that is neither a table nor a PDF
NotAPdf == [parses |-> FALSE, frame |-> Frame(<<>>), opens |-> FALSE, pages |-> <<>>]

PdfFiles ==
    {NotAPdf, Pdf(<<>>), Pdf(<<None>>), Pdf(<<Some(<<>>), None>>)}
    \cup {Pdf(<<Some(t)>>) : t \in Texts}

(***************************************************************************)
(* fetch_financials_from_ticker (lines 95-210).                            *)
(*                                                                         *)
(* A series is the first column of a yfinance statement: empty (the        *)
(* statement has no data) or a function from some of the keys the source   *)
(* looks up to floats; rows under other keys are never read and are left   *)
(* out.                                                                    *)
(***************************************************************************)
\* the keys of each item, in lookup order, and the statement they are read
\* from (lines 128-191)
feed_mapping == <<
    [key |-> "Cash & Bank Balances", series |-> "bs",
     keys |-> <<"Cash And Cash Equivalents",
                "Cash Cash Equivalents And Short Term Investments",
                "Cash Financial", "Cash">>],
    [key |-> "Sundry Debtors (Receivables)", series |-> "bs",
     keys |-> <<"Receivables", "Accounts Receivable", "Net Receivables",
                "Gross Accounts Receivable">>],
    [key |-> "Inventory (Stock)", series |-> "bs",
     keys |-> <<"Inventory", "Raw Materials", "Finished Goods">>],
    [key |-> "Sundry Creditors (Trade)", series |-> "bs",
     keys |-> <<"Accounts Payable", "Payables", "Payables And Accrued Expenses">>],
    [key |-> "Other Current Liabilities", series |-> "bs",
     keys |-> <<"Other Current Liabilities", "Current Deferred Liabilities",
                "Current Accrued Expenses">>],
    [key |-> "Short Term Bank Borrowings", series |-> "bs",
     keys |-> <<"Current Debt", "Current Debt And Capital Lease Obligation",
                "Short Long Term Debt">>],
    [key |-> "Long Term Loans", series |-> "bs",
     keys |-> <<"Long Term Debt", "Long Term Debt And Capital Lease Obligation",
                "Total Non Current Liabilities Net Minority Interest">>],
    [key |-> "Tangible Net Worth", series |-> "bs",
     keys |-> <<"Stockholders Equity", "Total Equity Gross Minority Interest",
                "Common Stock Equity">>],
    [key |-> "EBITDA", series |-> "is",
     keys |-> <<"EBITDA", "Normalized EBITDA", "Operating Income">>],
    [key |-> "Annual Turnover (Revenue)", series |-> "is",
     keys |-> <<"Total Revenue", "Operating Revenue", "Revenue">>],
    [key |-> "Total Raw Material Purchases", series |-> "is",
     keys |-> <<"Cost Of Revenue", "Cost Of Goods Sold">>],
    [key |-> "Interest & Finance Charges", series |-> "is",
     keys |-> <<"Interest Expense", "Interest Expense Non Operating",
                "Net Interest Income">>] >>

\* safe_get (lines 117-125): the first key present with a value that is not
\* NaN, else the default
RECURSIVE safe_get(_, _, _, _)
safe_get(series, keys, n, default) ==
    IF n > Len(keys) THEN default
    ELSE IF keys[n] \in DOMAIN series /\ series[keys[n]].k # "nan"
         THEN series[keys[n]]
         ELSE safe_get(series, keys, n + 1, default)

\* the function's pair: (frame, info) or (None, error message)
fetch_financials_from_ticker(f) ==
    IF f.fails
    THEN [frame |-> None, info |-> None, error |-> "Error fetching data"]
    ELSE IF f.balance_sheet.empty
    THEN [frame |-> None, info |-> None,
          error |-> "No balance sheet data found for this ticker."]
    ELSE LET latest_bs == f.balance_sheet.fields
             latest_is == IF f.income_stmt.empty THEN <<>> ELSE f.income_stmt.fields
             n == Len(feed_mapping)
         IN [frame |-> Some(Frame(
                 [i \in 1..(n + 1) |->
                     IF i <= n
                     THEN Row(feed_mapping[i].key,
                              safe_get(IF feed_mapping[i].series = "bs"
                                       THEN latest_bs ELSE latest_is,
                                       feed_mapping[i].keys, 1, Num(0)))
                     ELSE Row("Import Content (%)", Num(30))])),
             info |-> Some(f.info), error |-> ""]

(***************************************************************************)
(* The inputs of one run.                                                  *)
(***************************************************************************)
Amounts == {Num(v) : v \in (-1)..MaxAmt}

\* the subsets of S of at most n elements
RECURSIVE SubsetsUpTo(_, _)
SubsetsUpTo(S, n) ==
    IF n = 0 THEN {{}}
    ELSE LET smaller == SubsetsUpTo(S, n - 1)
         IN smaller \cup {T \cup {x} : T \in smaller, x \in S}

\* what a cell of an uploaded table can hold
CellValues == Amounts \cup {NaN, Text}

ZeroFrame == Frame([i \in 1..Len(Items) |-> Row(Items[i], Num(0))])

UnitFrame == Frame([i \in 1..Len(Items) |-> Row(Items[i], Num(1))])

\* a frame with the amounts of some rows replaced
Override(frame, changes) ==
    [frame EXCEPT !.rows =
        [i \in 1..Len(frame.rows) |->
            IF i \in DOMAIN changes
            THEN Row(frame.rows[i].Financial_Item, changes[i])
            ELSE frame.rows[i]]]

\* total statements: a base with at most MaxOverrides amounts replaced
Statements ==
    {Override(base, changes) :
        base \in {ZeroFrame, UnitFrame, DemoFrame},
        changes \in UNION {[S -> CellValues] :
            S \in SubsetsUpTo(1..Len(Items), MaxOverrides)}}

\* a table without the statement's two columns (its cells are never read)
ForeignFrame == [columns |-> <<"Item", "Value">>, rows |-> <<>>]

\* tables of at most MaxRows rows under the statement's columns
PartialFrames ==
    {ForeignFrame}
    \cup UNION {{Frame(rows) :
                    rows \in [1..n -> {Row(item, v) : item \in ItemSet, v \in CellValues}]} :
                n \in 0..MaxRows}

Csv(frame) == [parses |-> TRUE, frame |-> frame, opens |-> FALSE, pages |-> <<>>]

CsvFiles == {Csv(f) : f \in Statements \cup PartialFrames}

FeedValues == Amounts \cup {NaN}

\* a statement with data whose first column holds some of the given keys
Series(keys) ==
    {[empty |-> FALSE, fields |-> f] : f \in UNION {[S -> FeedValues] : S \in SUBSET keys}}

EmptySeries == [empty |-> TRUE, fields |-> <<>>]

\* a statement with data under none of the keys looked up
NoFields == [empty |-> FALSE, fields |-> <<>>]

Info == [name |-> "Company", currency |-> "USD", sector |-> "N/A",
         industry |-> "N/A", market_cap |-> 0]

Feed(fails, bs, is) ==
    [fails |-> fails, balance_sheet |-> bs, income_stmt |-> is, info |-> Info]

KeysOf(i) == {feed_mapping[i].keys[j] : j \in 1..Len(feed_mapping[i].keys)}

\* the answers of yfinance: a failure, no balance sheet, or statements that
\* hold any of the keys of one item, under any values
Feeds ==
    {Feed(TRUE, EmptySeries, EmptySeries), Feed(FALSE, EmptySeries, EmptySeries)}
    \cup UNION {IF feed_mapping[i].series = "bs"
                THEN {Feed(FALSE, bs, is) : bs \in Series(KeysOf(i)),
                                            is \in {EmptySeries, NoFields}}
                ELSE {Feed(FALSE, NoFields, is) : is \in Series(KeysOf(i))} :
                i \in 1..Len(feed_mapping)}

NoFeed == Feed(TRUE, EmptySeries, EmptySeries)

Files == CsvFiles \cup PdfFiles

InputTypes == {"Demo Mode", "Stock Ticker", "Upload CSV", "Upload PDF (Beta)"}

(***************************************************************************)
(* main (lines 262-395): one run of the script is one analysis request.    *)
(***************************************************************************)
Init ==
    /\ pc = "sidebar"
    /\ input_type = "Demo Mode"
    /\ ticker = ""
    /\ file = None
    /\ feed = NoFeed
    /\ df = None
    /\ company_info = None
    /\ res = None
    /\ display_df = None
    /\ message = ""
    /\ raised = ""
    /\ built = <<>>
    /\ calc_args = <<>>

\* lines 269-296: the widgets' values.  The ticker box exists only under
\* "Stock Ticker", the uploader only under the two upload types; the feed is
\* what yfinance would answer for the ticker typed.
Sidebar ==
    /\ pc = "sidebar"
    /\ pc' = "process"
    /\ \/ /\ input_type' = "Demo Mode"
          /\ ticker' = "" /\ feed' = NoFeed /\ file' = None
       \/ /\ input_type' = "Stock Ticker"
          /\ \/ ticker' = "" /\ feed' = NoFeed
             \/ ticker' = "AAPL" /\ feed' \in Feeds
          /\ file' = None
       \/ /\ input_type' \in {"Upload CSV", "Upload PDF (Beta)"}
          /\ ticker' = "" /\ feed' = NoFeed
          /\ file' \in {None} \cup {Some(f) : f \in Files}
    /\ UNCHANGED <<df, company_info, res, display_df, message, raised, built, calc_args>>

\* the run goes on to line 350 with a statement
Proceed(frame, info, source) ==
    /\ df' = Some(frame)
    /\ company_info' = info
    /\ built' = Append(built, source)
    /\ pc' = "calc"
    /\ UNCHANGED <<message, raised>>

\* an early return of main, after st.error or st.info
Return(text) ==
    /\ message' = text
    /\ pc' = "returned"
    /\ UNCHANGED <<df, company_info, raised, built>>

\* an exception that leaves main
Raise(exception) ==
    /\ raised' = exception
    /\ pc' = "raised"
    /\ UNCHANGED <<df, company_info, message, built>>

\* lines 298-348: the statement of the chosen source, or the end of the run
DataProcessing ==
    /\ pc = "process"
    /\ \/ /\ input_type = "Demo Mode"
          /\ Proceed(DemoFrame, None, "demo")
       \/ /\ input_type = "Stock Ticker" /\ ticker # ""
          /\ LET result == fetch_financials_from_ticker(feed)
             IN IF result.frame # None
                THEN Proceed(result.frame[1], result.info, "ticker")
                ELSE Return(result.error)
       \/ /\ input_type = "Stock Ticker" /\ ticker = ""
          /\ Return("Enter a stock ticker symbol in the sidebar to fetch financial data.")
       \/ /\ input_type = "Upload CSV" /\ file # None
          /\ IF file[1].parses
             THEN Proceed(file[1].frame, None, "csv")
             ELSE Raise("ParserError")
       \/ /\ input_type = "Upload PDF (Beta)" /\ file # None
          /\ LET result == parse_financials_from_pdf(file[1])
             IN IF result.raised = ""
                THEN Proceed(result.frame[1], None, "pdf")
                ELSE Raise(result.raised)
       \/ /\ input_type \in {"Upload CSV", "Upload PDF (Beta)"} /\ file = None
          /\ Return("Please select an input source or upload a document to trigger the credit engine.")
    /\ UNCHANGED <<input_type, ticker, file, feed, res, display_df, calc_args>>

\* line 350: res = calculate_limits(df)
Calculate ==
    /\ pc = "calc"
    /\ calc_args' = Append(calc_args, df[1])
    /\ LET result == calculate_limits(df[1])
       IN IF Raises(result)
          THEN /\ raised' = "ZeroDivisionError"
               /\ pc' = "raised"
               /\ res' = res
          ELSE /\ res' = Some(result)
               /\ pc' = "display"
               /\ raised' = raised
    /\ UNCHANGED <<input_type, ticker, file, feed, df, company_info, display_df,
                   message, built>>

\* line 393: f"{currency_symbol}{x:,.2f}" turns a float into a string
Formatted(cell) == [cell EXCEPT !.k = "fmt"]

\* lines 392-394: a copy of the frame with its amounts formatted and its two
\* columns renamed; the exception when the frame is not of that shape
audit_copy(frame, info) ==
    IF frame.columns # StatementColumns
    THEN [raised |-> "KeyError", frame |-> None]
    ELSE IF \E i \in 1..Len(frame.rows) : frame.rows[i].Amount_INR.k = "str"
    THEN [raised |-> "ValueError", frame |-> None]
    ELSE [raised |-> "",
          frame |-> Some(
              [columns |-> <<"Financial Item",
                             IF info # None THEN info[1].currency ELSE "INR">>,
               rows |-> [i \in 1..Len(frame.rows) |->
                            Row(frame.rows[i].Financial_Item,
                                Formatted(frame.rows[i].Amount_INR))]])]

\* Display formatting the statement itself instead of a copy
Display_in_place ==
    /\ pc = "display"
    /\ LET copy == audit_copy(df[1], company_info)
       IN IF copy.raised = ""
          THEN /\ display_df' = copy.frame
               /\ df' = copy.frame
               /\ pc' = "done"
               /\ raised' = raised
          ELSE /\ display_df' = display_df
               /\ df' = df
               /\ pc' = "raised"
               /\ raised' = copy.raised
    /\ UNCHANGED <<input_type, ticker, file, feed, company_info, res, message,
                   built, calc_args>>

\* lines 352-395: the dashboard and the three tabs, the last of which builds
\* display_df
Display ==
    /\ pc = "display"
    /\ LET copy == audit_copy(df[1], company_info)
       IN IF copy.raised = ""
          THEN /\ display_df' = copy.frame
               /\ pc' = "done"
               /\ raised' = raised
          ELSE /\ display_df' = display_df
               /\ pc' = "raised"
               /\ raised' = copy.raised
    /\ UNCHANGED <<input_type, ticker, file, feed, df, company_info, res, message,
                   built, calc_args>>

Next == Sidebar \/ DataProcessing \/ Calculate \/ Display

Spec == Init /\ [][Next]_vars

(***************************************************************************)
(* calculate_limits alone: the run right after an upload of any table.     *)
(***************************************************************************)
InitCalc ==
    /\ pc = "calc"
    /\ input_type = "Upload CSV"
    /\ ticker = ""
    /\ feed = NoFeed
    /\ \E frame \in Statements \cup PartialFrames :
          /\ file = Some(Csv(frame))
          /\ df = Some(frame)
    /\ company_info = None
    /\ res = None
    /\ display_df = None
    /\ message = ""
    /\ raised = ""
    /\ built = <<"csv">>
    /\ calc_args = <<>>

NextCalc == Calculate \/ Display

SpecCalc == InitCalc /\ [][NextCalc]_vars

(***************************************************************************)
(* Vocabulary of the properties.                                           *)
(***************************************************************************)
\* the rows of a frame that state the item
RowsOf(frame, item) ==
    IF frame.columns # StatementColumns THEN {}
    ELSE {i \in 1..Len(frame.rows) : frame.rows[i].Financial_Item = item}

\* exactly one entry for every canonical item
Total(frame) == \A item \in ItemSet : Cardinality(RowsOf(frame, item)) = 1

NonNegative(x) == x.k = "num" /\ x.n >= 0

\* total, and every canonical item a number >= 0
WellFormed(frame) ==
    /\ Total(frame)
    /\ \A i \in 1..Len(frame.rows) :
          frame.rows[i].Financial_Item \in ItemSet => NonNegative(frame.rows[i].Amount_INR)

\* the number a frame states for an item: None when it has no row for the
\* item or the first such row holds no number
Stated(frame, item) ==
    LET rows == RowsOf(frame, item)
    IN IF rows = {} THEN None
       ELSE LET cell == frame.rows[CHOOSE i \in rows : \A j \in rows : i <= j].Amount_INR
            IN IF cell.k = "str" THEN None ELSE Some(cell)

\* the same, with 0.0 for None
Amount(frame, item) ==
    IF Stated(frame, item) = None THEN Num(0) ELSE Stated(frame, item)[1]

\* calculate_limits has been called; its argument
Handed == calc_args # <<>>
Statement == calc_args[1]

Ended == pc \in {"done", "returned", "raised"}

Processed == pc \notin {"sidebar", "process"}

\* the run reads a PDF upload that opens and whose pages all give text
ReadablePdf ==
    /\ input_type = "Upload PDF (Beta)"
    /\ file # None
    /\ file[1].opens
    /\ \A i \in 1..Len(file[1].pages) : file[1].pages[i] # None

\* the text the adapter searches in such a run
PdfText == page_text(file[1].pages)[1]

\* the run reads a source with nothing in it: a PDF whose pages give no
\* text (None or ""), a feed that fails or has no balance sheet
Unreadable ==
    \/ /\ input_type = "Upload PDF (Beta)"
       /\ file # None
       /\ file[1].opens
       /\ file[1].pages # <<>>
       /\ \A i \in 1..Len(file[1].pages) : file[1].pages[i] \in {None, Some(<<>>)}
    \/ /\ input_type = "Stock Ticker"
       /\ ticker # ""
       /\ feed.fails \/ feed.balance_sheet.empty

(***************************************************************************)
(* C1.  Each of the five facility amounts of a result (WC, TL, LC, BG,     *)
(* BILL) is >= 0, whatever the statement holds.                            *)
(***************************************************************************)
C1_FacilitiesNonNegative ==
    res # None =>
        \A key \in {"WC", "TL", "LC", "BG", "BILL"} : NonNegative(res[1][key])

(***************************************************************************)
(* C2.  On a well-formed statement calculate_limits does not raise;        *)
(* LEVERAGE is TotalDebt/EBITDA when EBITDA > 0 and 0 otherwise; DSCR is   *)
(* EBITDA/(Interest + TotalDebt/5) when that denominator is > 0 and 0      *)
(* otherwise; both are numbers >= 0; the all-zero statement gives          *)
(* LEVERAGE = 0, DSCR = 0 and term-loan headroom 0.  (The quotients are    *)
(* stated by their products: q = a/b as q*b = a.)                          *)
(***************************************************************************)
C2_RatiosDefined ==
    (Handed /\ WellFormed(Statement)) =>
        /\ raised # "ZeroDivisionError"
        /\ res # None
        /\ LET ebitda == Amount(Statement, "EBITDA")
               interest == Amount(Statement, "Interest & Finance Charges")
               debt == Add(Amount(Statement, "Short Term Bank Borrowings"),
                           Amount(Statement, "Long Term Loans"))
               den5 == Add(Mul(Num(5), interest), debt)
               r == res[1]
           IN /\ NonNegative(r.LEVERAGE)
              /\ NonNegative(r.DSCR)
              /\ IF ebitda.n > 0
                 THEN Mul(r.LEVERAGE, ebitda) = debt
                 ELSE r.LEVERAGE = Num(0)
              /\ IF den5.n > 0
                 THEN Mul(r.DSCR, den5) = Mul(Num(5), ebitda)
                 ELSE r.DSCR = Num(0)
              /\ (\A item \in ItemSet : Amount(Statement, item) = Num(0)) =>
                     r.LEVERAGE = Num(0) /\ r.DSCR = Num(0) /\ r.TL = Num(0)

\* a well-formed statement with debt and no EBITDA has its result
C2_Witness ==
    /\ Handed /\ WellFormed(Statement) /\ res # None
    /\ Amount(Statement, "EBITDA") = Num(0)
    /\ Amount(Statement, "Long Term Loans").n > 0

(***************************************************************************)
(* C3.  Every statement handed to calculate_limits has exactly one entry   *)
(* for every canonical item.                                               *)
(***************************************************************************)
C3_StatementsTotal == Handed => Total(Statement)

(***************************************************************************)
(* C4.  WC = max(0, 0.75*CA - OCL) with CA = Cash + Debtors + Inventory    *)
(* and OCL = Creditors + OtherCL; the demo amounts give CA = 13,000,000,   *)
(* OCL = 4,500,000 and WC = 5,250,000.                                     *)
(***************************************************************************)
C4_WorkingCapital ==
    res # None =>
        LET CA == Add(Add(Amount(Statement, "Cash & Bank Balances"),
                          Amount(Statement, "Sundry Debtors (Receivables)")),
                      Amount(Statement, "Inventory (Stock)"))
            OCL == Add(Amount(Statement, "Sundry Creditors (Trade)"),
                       Amount(Statement, "Other Current Liabilities"))
        IN /\ res[1].CA = CA
           /\ res[1].OCL = OCL
           /\ res[1].WC = Max(Num(0), Sub(Mul(CA, Rat(3, 4)), OCL))
           /\ ( /\ Amount(Statement, "Cash & Bank Balances") = Num(2000000)
                /\ Amount(Statement, "Sundry Debtors (Receivables)") = Num(6000000)
                /\ Amount(Statement, "Inventory (Stock)") = Num(5000000)
                /\ Amount(Statement, "Sundry Creditors (Trade)") = Num(3500000)
                /\ Amount(Statement, "Other Current Liabilities") = Num(1000000) )
              => ( /\ res[1].CA = Num(13000000)
                   /\ res[1].OCL = Num(4500000)
                   /\ res[1].WC = Num(5250000) )

\* the result of the demo amounts
C4_Witness ==
    /\ res # None
    /\ Statement = DemoFrame
    /\ res[1].WC = Num(5250000)

(***************************************************************************)
(* C5.  When the source is unreadable the adapter does not raise: the run  *)
(* has a soft error and a statement with every canonical item at 0.0.      *)
(***************************************************************************)
C5_SoftErrorWithDefaults ==
    (Unreadable /\ Processed) =>
        /\ raised = ""
        /\ message # ""
        /\ df # None
        /\ Total(df[1])
        /\ \A item \in ItemSet : Stated(df[1], item) = Some(Num(0))

(***************************************************************************)
(* C6.  The free-text adapter never raises on a numeric token: for every   *)
(* text it returns a statement.                                            *)
(***************************************************************************)
C6_NoRaiseOnToken == (ReadablePdf /\ Processed) => (raised = "" /\ df # None)

(***************************************************************************)
(* C7.  Whenever the Debtors label is followed by a number, that number is *)
(* the Debtors amount of the statement, wherever the Receivables label     *)
(* stands and whatever the text holds for other items.                     *)
(***************************************************************************)
C7_FirstPatternWins ==
    (ReadablePdf /\ Processed) =>
        LET match == search("Debtors", PdfText)
        IN (match # None /\ float(StripCommas(match[1])).k = "num") =>
               /\ df # None
               /\ Stated(df[1], "Sundry Debtors (Receivables)")
                      = Some(float(StripCommas(match[1])))

\* the priority on its own: whenever the adapter returns a statement, its
\* Debtors amount is the number of the first Debtors label that has one
FirstPatternWinsOnReturn ==
    (ReadablePdf /\ Processed /\ df # None) =>
        LET match == search("Debtors", PdfText)
        IN match # None =>
               Stated(df[1], "Sundry Debtors (Receivables)")
                   = Some(float(StripCommas(match[1])))

(***************************************************************************)
(* C8.  Every value of a statement produced by the feed adapter or the     *)
(* free-text adapter is >= 0.                                              *)
(***************************************************************************)
C8_StatementNonNegative ==
    (df # None /\ built[1] \in {"ticker", "pdf"}) =>
        \A i \in 1..Len(df[1].rows) : NonNegative(df[1].rows[i].Amount_INR)

(***************************************************************************)
(* C9.  LC = (Purchases * pct/100 / 12) * 4, that is 300 * LC =            *)
(* Purchases * pct, where pct is the statement's Import Content (%) when   *)
(* it is non-zero and 30 when it is 0 or not stated; nothing else of the   *)
(* statement enters.                                                       *)
(***************************************************************************)
C9_LetterOfCredit ==
    res # None =>
        LET purchases == Amount(Statement, "Total Raw Material Purchases")
            stated == Stated(Statement, "Import Content (%)")
            pct == IF stated = None \/ stated = Some(Num(0)) THEN Num(30) ELSE stated[1]
        IN Mul(res[1].LC, Num(300)) = Mul(purchases, pct)

\* a statement with purchases and an import content of 0 gets a limit > 0
C9_Witness ==
    /\ res # None
    /\ Stated(Statement, "Import Content (%)") = Some(Num(0))
    /\ Amount(Statement, "Total Raw Material Purchases").n > 0
    /\ res[1].LC.k = "num" /\ res[1].LC.n > 0

(***************************************************************************)
(* C10.  In every run at most one statement is constructed, from the       *)
(* source selected; calculate_limits is called at most once, on that       *)
(* statement and not before it exists, and exactly once by the end of a    *)
(* run that constructed one; a run without a statement never calls it;     *)
(* and the statement, once constructed, is never modified (the audit       *)
(* display is a different frame).                                          *)
(***************************************************************************)
SourceOf(type) ==
    CASE type = "Demo Mode" -> "demo"
      [] type = "Stock Ticker" -> "ticker"
      [] type = "Upload CSV" -> "csv"
      [] type = "Upload PDF (Beta)" -> "pdf"

C10_Lifecycle ==
    /\ Len(built) <= 1
    /\ (built # <<>>) <=> (df # None)
    /\ built # <<>> => built[1] = SourceOf(input_type)
    /\ Len(calc_args) <= 1
    /\ Handed => (df # None /\ df[1] = Statement)
    /\ res # None => Handed
    /\ (Ended /\ df # None) => Len(calc_args) = 1
    /\ (Ended /\ df = None) => calc_args = <<>>
    /\ display_df # None => (Handed /\ display_df # df)

C10_Immutable == (df # None) => (df' = df)

====
